---- MODULE Spec2Model ----
(***************************************************************************)
(* Model of scripts/generate_rule_gifs.py: the board, the frame composer   *)
(* (draw_board / make_frame), the turn animator (animate_turn) and the six *)
(* scenarios gif1..gif6 run by main.                                       *)
(*                                                                         *)
(* Python lists are mutable objects, so boards and word lists live in two  *)
(* heaps (sequences indexed by reference); a program variable holding a    *)
(* board or a word list holds a reference.  A frame is an immutable image: *)
(* it is modelled by the values make_frame rasterises (board contents,     *)
(* resolved cell fills, side-panel contents, overlays) at the time of the  *)
(* call.  Python strings are sequences of one-character strings so that    *)
(* slicing (word[:i]) is computed.  The check mark and the cross of the    *)
(* status texts are written "v" and "x".                                   *)
(***************************************************************************)
EXTENDS Integers, Sequences, FiniteSets, TLC

VARIABLES
    pc,           \* position of the running code
    scen,         \* scenario being built by main (1..6); 0 outside main
    turnNo,       \* which call of animate_turn two_valid_turns is at (1, 2)
    boards,       \* heap of board objects
    wls,          \* heap of word-list objects
    frames,       \* frames of the scenario (two_valid_turns / gifN local)
    durations,    \* durations of the scenario
    board,        \* caller's board reference (0: none)
    word_list,    \* caller's word-list reference (0: none)
    board_inv,    \* gifN: reference of the copy used by the invalid turn
    err_word_list,\* gif5: reference of the recoloured word list
    t_turn,       \* animate_turn: turn
    t_is_error,   \* animate_turn: is_error
    t_board,      \* animate_turn: local board
    t_word_list,  \* animate_turn: local word_list
    t_frames,     \* animate_turn: local frames
    t_durations,  \* animate_turn: local durations
    t_i,          \* loop index of the running path-reveal loop
    call_board,   \* history: contents of the board passed to animate_turn, at the call
    call_wl,      \* history: contents of the word list passed to animate_turn, at the call
    prefix_board, \* history: contents of the board two_valid_turns returned
    prefix_wl,    \* history: contents of the word list two_valid_turns returned
    prefix_n,     \* history: number of frames two_valid_turns returned
    d_in,         \* draw_board harness: arguments
    d_out,        \* draw_board harness: resolved fills (<<>> before the call)
    calls,        \* history: number of scenarios called so far
    base_b,       \* history: size of the board heap when the scenario was called
    base_w,       \* history: size of the word-list heap when the scenario was called
    saved,        \* history: per scenario, what its first run handed to save_gif
    saved_prefix  \* history: what the first run of two_valid_turns returned

orderVars == <<calls, base_b, base_w, saved, saved_prefix>>

vars == <<pc, scen, turnNo, boards, wls, frames, durations, board, word_list,
          board_inv, err_word_list, t_turn, t_is_error, t_board, t_word_list,
          t_frames, t_durations, t_i, call_board, call_wl, prefix_board,
          prefix_wl, prefix_n, d_in, d_out, orderVars>>

mainVars == <<scen, turnNo, frames, durations, board, word_list, board_inv,
              err_word_list, prefix_board, prefix_wl, prefix_n, orderVars>>
drawVars == <<d_in, d_out>>
callVars == <<t_turn, t_is_error, call_board, call_wl>>

-----------------------------------------------------------------------------
(* Bounds of the input sets of the harness specifications *)
MaxPathLen == 4
MaxWordLen == 4

-----------------------------------------------------------------------------
(* Constants of the program *)
N == 5
FRAME_MS == 150

BG == <<254, 254, 254>>
EMPTY_FILL == <<232, 232, 232>>
LETTER_FILL == <<255, 255, 255>>
PATH_COLOR == <<33, 150, 243>>
NEW_COLOR == <<76, 175, 80>>
ERROR_COLOR == <<244, 67, 54>>
YELLOW_COLOR == <<255, 193, 7>>
VALID_COLOR == <<76, 175, 80>>
MUTED == <<140, 140, 140>>
DARK == <<40, 40, 40>>

Rows == 0 .. (N - 1)
Cells == Rows \X Rows

Min(a, b) == IF a < b THEN a ELSE b
Range(s) == {s[k] : k \in DOMAIN s}

Take_exclusive(s, i) == SubSeq(s, 1, Min(i - 1, Len(s)))
\* Python s[:i]
Take(s, i) == SubSeq(s, 1, Min(i, Len(s)))

initial_board ==
    [r \in Rows |-> [c \in Rows |->
        IF r = 2 THEN <<"A", "G", "E", "N", "T">>[c + 1] ELSE "."]]

\* a mapping argument (highlights): cell -> <<>> (no entry) or <<colour>>
NoHighlights == [x \in Cells |-> <<>>]
HlSet(h, cell, col) == [h EXCEPT ![cell] = <<col>>]
\* {(r, c): col for r, c in path}
HlOfPath(path, col) == [x \in Cells |-> IF x \in Range(path) THEN <<col>> ELSE <<>>]

\* copy_board on the heap h: a new object with the contents of h[b]
copy_board_alias(h, b) == [heap |-> h, ref |-> b]
copy_board(h, b) ==
    [heap |-> Append(h, [r \in Rows |-> [c \in Rows |-> h[b][r][c]]]),
     ref  |-> Len(h) + 1]

\* list(word_list or []) on the heap h
list_copy_alias(h, w) == [heap |-> h, ref |-> w]
list_copy(h, w) == [heap |-> Append(h, h[w]), ref |-> Len(h) + 1]

\* initial_board(): a new board object on each call
new_board_shared(h) ==
    IF h = <<>> THEN [heap |-> <<initial_board>>, ref |-> 1]
    ELSE [heap |-> h, ref |-> Len(h)]
new_board(h) == [heap |-> Append(h, initial_board), ref |-> Len(h) + 1]

SetCell_transposed(h, b, cell, letter) == [h EXCEPT ![b][cell[2]][cell[1]] = letter]
\* board[r][c] = letter
SetCell(h, b, cell, letter) == [h EXCEPT ![b][cell[1]][cell[2]] = letter]

-----------------------------------------------------------------------------
(* Frame composer *)

\* draw_board: the fill colour resolved for cell (r, c)
CellFill_pathFirst(b, highlights, path_cells, new_letter_cell, r, c) ==
    IF highlights[<<r, c>>] # <<>> THEN highlights[<<r, c>>][1]
    ELSE IF <<r, c>> \in Range(path_cells) THEN PATH_COLOR
    ELSE IF new_letter_cell = <<(<<r, c>>)>> THEN NEW_COLOR
    ELSE IF b[r][c] = "." THEN EMPTY_FILL
    ELSE LETTER_FILL
CellFill(b, highlights, path_cells, new_letter_cell, r, c) ==
    IF highlights[<<r, c>>] # <<>> THEN highlights[<<r, c>>][1]
    ELSE IF new_letter_cell = <<(<<r, c>>)>> THEN NEW_COLOR
    ELSE IF <<r, c>> \in Range(path_cells) THEN PATH_COLOR
    ELSE IF b[r][c] = "." THEN EMPTY_FILL
    ELSE LETTER_FILL

draw_board(b, highlights, path_cells, new_letter_cell) ==
    [r \in Rows |-> [c \in Rows |->
        CellFill(b, highlights, path_cells, new_letter_cell, r, c)]]

\* keyword defaults of make_frame; None is <<>>, a given value v is <<v>>
FrameDefaults ==
    [word_list |-> <<>>, current_word |-> <<>>, current_word_color |-> DARK,
     status |-> <<>>, status_color |-> DARK, highlights |-> NoHighlights,
     path_cells |-> <<>>, new_letter_cell |-> <<>>, extra_draw |-> <<>>]

\* make_frame(board, **kw): what the image shows
make_frame(b, kw) ==
    LET a == kw @@ FrameDefaults IN
    [board |-> b,
     fill |-> draw_board(b, a.highlights, a.path_cells, a.new_letter_cell),
     word_list |-> a.word_list,
     current_word |-> a.current_word,
     current_word_color |-> a.current_word_color,
     status |-> a.status,
     status_color |-> a.status_color,
     highlights |-> a.highlights,
     path_cells |-> a.path_cells,
     new_letter_cell |-> a.new_letter_cell,
     extra_draw |-> a.extra_draw]

repeat_frame_short(frame, count) == [k \in 1 .. (count - 1) |-> frame]
repeat_frame(frame, count) == [k \in 1 .. count |-> frame]
Times(x, count) == [k \in 1 .. count |-> x]

-----------------------------------------------------------------------------
(* Standard turns *)
RAGE == <<"R", "A", "G", "E">>
DENT == <<"D", "E", "N", "T">>
TURN1_diagonal == [cell |-> <<1, 0>>, letter |-> "R", word |-> RAGE,
                   path |-> << <<1, 0>>, <<2, 1>>, <<2, 2>>, <<2, 3>> >>]
TURN1 == [cell |-> <<1, 0>>, letter |-> "R", word |-> RAGE,
          path |-> << <<1, 0>>, <<2, 0>>, <<2, 1>>, <<2, 2>> >>]
TURN2_sameCell == [cell |-> <<1, 0>>, letter |-> "D", word |-> DENT,
                   path |-> << <<3, 2>>, <<2, 2>>, <<2, 3>>, <<2, 4>> >>]
TURN2 == [cell |-> <<3, 2>>, letter |-> "D", word |-> DENT,
          path |-> << <<3, 2>>, <<2, 2>>, <<2, 3>>, <<2, 4>> >>]

-----------------------------------------------------------------------------
(* animate_turn, statement by statement *)

\* 236-243: bind the locals, board = copy_board(board)
AtCopy ==
    /\ pc = "at_copy"
    /\ LET cb == copy_board(boards, t_board) IN
        /\ boards' = cb.heap
        /\ t_board' = cb.ref
    /\ t_frames' = <<>>
    /\ t_durations' = <<>>
    /\ pc' = "at_highlight"
    /\ UNCHANGED <<wls, t_word_list, t_i, mainVars, callVars, drawVars>>

\* 246-248: step 1, highlight the target cell
AtHighlight ==
    /\ pc = "at_highlight"
    /\ t_frames' = Append(t_frames,
           make_frame(boards[t_board],
                      [word_list |-> wls[t_word_list],
                       highlights |-> HlSet(NoHighlights, t_turn.cell, YELLOW_COLOR)]))
    /\ t_durations' = Append(t_durations, 500)
    /\ pc' = "at_place"
    /\ UNCHANGED <<boards, wls, t_board, t_word_list, t_i, mainVars, callVars, drawVars>>

\* 251-252: step 2, board[r][c] = new_letter
AtPlace ==
    /\ pc = "at_place"
    /\ boards' = SetCell(boards, t_board, t_turn.cell, t_turn.letter)
    /\ pc' = "at_placed"
    /\ UNCHANGED <<wls, t_board, t_word_list, t_frames, t_durations, t_i,
                   mainVars, callVars, drawVars>>

\* 253-255: the letter-placed frame
AtPlaced ==
    /\ pc = "at_placed"
    /\ t_frames' = Append(t_frames,
           make_frame(boards[t_board],
                      [word_list |-> wls[t_word_list],
                       new_letter_cell |-> <<t_turn.cell>>]))
    /\ t_durations' = Append(t_durations, 500)
    /\ t_i' = 1
    /\ pc' = "at_reveal"
    /\ UNCHANGED <<boards, wls, t_board, t_word_list, mainVars, callVars, drawVars>>

\* 258-264: step 3, one iteration of the path-reveal loop
AtReveal ==
    /\ pc = "at_reveal"
    /\ t_i <= Len(t_turn.path)
    /\ t_frames' = Append(t_frames,
           make_frame(boards[t_board],
                      [word_list |-> wls[t_word_list],
                       current_word |-> <<Take(t_turn.word, t_i)>>,
                       current_word_color |-> PATH_COLOR,
                       path_cells |-> Take(t_turn.path, t_i),
                       new_letter_cell |-> <<t_turn.cell>>]))
    /\ t_durations' = Append(t_durations, 350)
    /\ t_i' = t_i + 1
    /\ UNCHANGED <<pc, boards, wls, t_board, t_word_list, mainVars, callVars, drawVars>>

\* 268-275: the error frame of the reject branch
at_err_frame_pathOnly ==
    make_frame(boards[t_board],
               [word_list |-> wls[t_word_list],
                current_word |-> <<t_turn.word>>,
                current_word_color |-> ERROR_COLOR,
                status |-> <<"x INVALID">>,
                status_color |-> ERROR_COLOR,
                highlights |-> HlOfPath(t_turn.path, ERROR_COLOR)])
at_err_frame ==
    make_frame(boards[t_board],
               [word_list |-> wls[t_word_list],
                current_word |-> <<t_turn.word>>,
                current_word_color |-> ERROR_COLOR,
                status |-> <<"x INVALID">>,
                status_color |-> ERROR_COLOR,
                highlights |-> HlSet(HlOfPath(t_turn.path, ERROR_COLOR),
                                     t_turn.cell, ERROR_COLOR)])

\* 279-284: the outcome frame of the accept branch
at_ok_frame ==
    make_frame(boards[t_board],
               [word_list |-> wls[t_word_list],
                current_word |-> <<t_turn.word>>,
                current_word_color |-> VALID_COLOR,
                status |-> <<"v Valid">>,
                status_color |-> VALID_COLOR,
                path_cells |-> t_turn.path,
                new_letter_cell |-> <<t_turn.cell>>])

\* 267-286: step 4, the held outcome frame
AtResult ==
    /\ pc = "at_reveal"
    /\ t_i > Len(t_turn.path)
    /\ IF t_is_error
       THEN /\ t_frames' = t_frames \o repeat_frame(at_err_frame, 20)
            /\ t_durations' = t_durations \o Times(FRAME_MS, 20)
            /\ pc' = "at_return"
       ELSE /\ t_frames' = t_frames \o repeat_frame(at_ok_frame, 6)
            /\ t_durations' = t_durations \o Times(FRAME_MS, 6)
            /\ pc' = "at_append"
    /\ UNCHANGED <<boards, wls, t_board, t_word_list, t_i, mainVars, callVars, drawVars>>

\* 288-289: word_list = list(word_list or []); word_list.append((word, VALID_COLOR))
AtAppend ==
    /\ pc = "at_append"
    /\ LET lc == list_copy(wls, t_word_list) IN
        /\ wls' = [lc.heap EXCEPT ![lc.ref] = Append(@, <<t_turn.word, VALID_COLOR>>)]
        /\ t_word_list' = lc.ref
    /\ pc' = "at_final"
    /\ UNCHANGED <<boards, t_board, t_frames, t_durations, t_i, mainVars, callVars, drawVars>>

\* 290-291: the frame carried forward
AtFinal ==
    /\ pc = "at_final"
    /\ t_frames' = Append(t_frames,
           make_frame(boards[t_board], [word_list |-> wls[t_word_list]]))
    /\ t_durations' = Append(t_durations, 600)
    /\ pc' = "at_return"
    /\ UNCHANGED <<boards, wls, t_board, t_word_list, t_i, mainVars, callVars, drawVars>>

AnimateTurn ==
    \/ AtCopy
    \/ AtHighlight
    \/ AtPlace
    \/ AtPlaced
    \/ AtReveal
    \/ AtResult
    \/ AtAppend
    \/ AtFinal

-----------------------------------------------------------------------------
(* animate_turn called on inputs drawn from bounded sets *)

BoardAfter(b, turn) == [b EXCEPT ![turn.cell[1]][turn.cell[2]] = turn.letter]

InputBoards == {initial_board, BoardAfter(initial_board, TURN1)}
InputCells == {<<1, 0>>, <<3, 2>>, <<2, 2>>}
InputLetters == {"R", "D"}
BasePaths == {TURN1.path \o << <<2, 3>> >>,
              TURN2.path \o << <<1, 4>> >>,
              << <<2, 2>>, <<2, 3>>, <<2, 4>>, <<2, 3>>, <<2, 2>> >>}
BaseWords == {RAGE \o <<"S">>, DENT \o <<"S">>}
InputPaths == {Take(p, n) : p \in BasePaths, n \in 0 .. MaxPathLen}
InputWords == {Take(w, n) : w \in BaseWords, n \in 0 .. MaxWordLen}
InputWordLists == {<<>>, << <<RAGE, VALID_COLOR>> >>}

\* the history of scenario calls starts empty
OrderInit ==
    /\ calls = 0
    /\ base_b = 0
    /\ base_w = 0
    /\ saved = [s \in 1 .. 6 |-> <<>>]
    /\ saved_prefix = <<>>

InitTurn ==
    /\ pc = "at_copy"
    /\ scen = 0
    /\ turnNo = 0
    /\ \E b \in InputBoards : boards = <<b>> /\ call_board = b
    /\ \E w \in InputWordLists : wls = <<w>> /\ call_wl = w
    /\ board = 1
    /\ word_list = 1
    /\ t_board = 1
    /\ t_word_list = 1
    /\ \E cell \in InputCells, letter \in InputLetters,
          word \in InputWords, path \in InputPaths :
          t_turn = [cell |-> cell, letter |-> letter, word |-> word, path |-> path]
    /\ t_is_error \in BOOLEAN
    /\ frames = <<>>
    /\ durations = <<>>
    /\ board_inv = 0
    /\ err_word_list = 0
    /\ t_frames = <<>>
    /\ t_durations = <<>>
    /\ t_i = 0
    /\ prefix_board = <<>>
    /\ prefix_wl = <<>>
    /\ prefix_n = 0
    /\ OrderInit
    /\ d_in = <<>>
    /\ d_out = <<>>


-----------------------------------------------------------------------------
(* two_valid_turns and the scenarios gif1..gif6, statement by statement *)

CELL == 60
PAD == 24

cell_center_swapped(r, c) == <<PAD + r * CELL + CELL \div 2, PAD + c * CELL + CELL \div 2>>
\* 87-88, with the defaults x0 = y0 = PAD: (x, y) of the centre of cell (r, c)
cell_center(r, c) == <<PAD + c * CELL + CELL \div 2, PAD + r * CELL + CELL \div 2>>

\* 127-141: the connector lines draw_board draws between consecutive path
\* cells.  ux = dx / mag is a float in the source; an endpoint is kept here as
\* the pair of numerators over the denominator mag.
RECURSIVE connectors_from(_, _)
connectors_from(path_cells, i) ==
    IF i >= Len(path_cells) THEN <<>>
    ELSE LET c1 == cell_center(path_cells[i][1], path_cells[i][2])
             c2 == cell_center(path_cells[i + 1][1], path_cells[i + 1][2])
             dx == c2[1] - c1[1]
             dy == c2[2] - c1[2]
             adx == IF dx < 0 THEN -dx ELSE dx
             ady == IF dy < 0 THEN -dy ELSE dy
             mag == IF adx > ady THEN adx ELSE ady
             k == CELL \div 2 - 4
         IN (IF mag = 0 THEN <<>>
             ELSE << [from |-> <<c1[1] * mag + dx * k, c1[2] * mag + dy * k>>,
                      to |-> <<c2[1] * mag - dx * k, c2[2] * mag - dy * k>>,
                      over |-> mag, fill |-> <<100, 100, 100>>] >>)
            \o connectors_from(path_cells, i + 1)
connectors(path_cells) ==
    IF Len(path_cells) >= 2 THEN connectors_from(path_cells, 1) ELSE <<>>

\* variables no statement of a gifN body touches
gifFixed == <<scen, turnNo, board, word_list, t_turn, t_is_error, t_board,
              t_word_list, t_frames, t_durations, call_board, call_wl,
              prefix_board, prefix_wl, prefix_n, d_in, d_out, orderVars>>

\* frames.append(f); durations.append(ms)
AppendFrame(f, ms) ==
    /\ frames' = Append(frames, f)
    /\ durations' = Append(durations, ms)

ExtendError_once(f) ==
    /\ frames' = Append(frames, f)
    /\ durations' = durations \o Times(FRAME_MS, 20)
\* frames.extend(repeat_frame(f, 20)); durations.extend([FRAME_MS] * 20)
ExtendError(f) ==
    /\ frames' = frames \o repeat_frame(f, 20)
    /\ durations' = durations \o Times(FRAME_MS, 20)

\* board_inv = copy_board(board)
CopyForInvalid(at, next) ==
    /\ pc = at
    /\ LET cb == copy_board(boards, board) IN
        /\ boards' = cb.heap
        /\ board_inv' = cb.ref
    /\ pc' = next
    /\ UNCHANGED <<wls, frames, durations, err_word_list, t_i, gifFixed>>

\* board_inv[r][c] = letter
PlaceInvalid(at, next, cell, letter) ==
    /\ pc = at
    /\ boards' = SetCell(boards, board_inv, cell, letter)
    /\ pc' = next
    /\ UNCHANGED <<wls, frames, durations, board_inv, err_word_list, t_i, gifFixed>>

\* the frame showing the invalid letter placed, held 600 ms
PlacedInvalid(at, next, cell) ==
    /\ pc = at
    /\ AppendFrame(make_frame(boards[board_inv],
                              [word_list |-> wls[word_list],
                               new_letter_cell |-> <<cell>>]), 600)
    /\ t_i' = 1
    /\ pc' = next
    /\ UNCHANGED <<boards, wls, board_inv, err_word_list, gifFixed>>

\* one appended frame (or block of frames) that leaves the boards alone
Emit(at, next, appended) ==
    /\ pc = at
    /\ appended
    /\ pc' = next
    /\ UNCHANGED <<boards, wls, board_inv, err_word_list, t_i, gifFixed>>

\* number of scenario calls explored when the scenarios run in any order
MaxCalls == 2

\* gifN() is entered: the previous call's locals are gone
GifEnter(s) ==
    /\ pc = "main"
    /\ scen' = s
    /\ pc' = IF s <= 5 THEN "gif_start" ELSE "g6_correct"
    /\ frames' = <<>>
    /\ durations' = <<>>
    /\ board' = 0
    /\ word_list' = 0
    /\ board_inv' = 0
    /\ err_word_list' = 0
    /\ turnNo' = 0
    /\ prefix_board' = <<>>
    /\ prefix_wl' = <<>>
    /\ prefix_n' = 0
    /\ calls' = calls + 1
    /\ base_b' = Len(boards)
    /\ base_w' = Len(wls)
    /\ UNCHANGED <<boards, wls, t_turn, t_is_error, t_board, t_word_list,
                   t_frames, t_durations, t_i, call_board, call_wl, d_in, d_out,
                   saved, saved_prefix>>

\* main 565-570: gif1() .. gif6() in this order
GifCall ==
    /\ scen < 6
    /\ GifEnter(scen + 1)

\* gifN() called on its own, after any earlier calls, in any order
GifCallAny ==
    /\ calls < MaxCalls
    /\ \E s \in 1 .. 6 : GifEnter(s)

\* main 571
MainDone ==
    /\ pc = "main"
    /\ scen = 6
    /\ pc' = "done"
    /\ UNCHANGED <<scen, turnNo, boards, wls, frames, durations, board, word_list,
                   board_inv, err_word_list, t_turn, t_is_error, t_board,
                   t_word_list, t_frames, t_durations, t_i, call_board, call_wl,
                   prefix_board, prefix_wl, prefix_n, d_in, d_out, orderVars>>

\* gifN first line: two_valid_turns(initial_board()), and 298-300
GifStart ==
    /\ pc = "gif_start"
    /\ LET nb == new_board(boards) IN
        /\ boards' = nb.heap
        /\ board' = nb.ref
    /\ wls' = Append(wls, <<>>)
    /\ word_list' = Len(wls) + 1
    /\ frames' = <<>>
    /\ durations' = <<>>
    /\ turnNo' = 1
    /\ pc' = "tvt_call"
    /\ UNCHANGED <<scen, board_inv, err_word_list, t_turn, t_is_error, t_board,
                   t_word_list, t_frames, t_durations, t_i, call_board, call_wl,
                   prefix_board, prefix_wl, prefix_n, d_in, d_out, orderVars>>

\* 302 / 305: animate_turn(board, TURNn, word_list) is called
TvtCall ==
    /\ pc = "tvt_call"
    /\ t_turn' = IF turnNo = 1 THEN TURN1 ELSE TURN2
    /\ t_is_error' = FALSE
    /\ t_board' = board
    /\ t_word_list' = word_list
    /\ call_board' = boards[board]
    /\ call_wl' = wls[word_list]
    /\ pc' = "at_copy"
    /\ UNCHANGED <<scen, turnNo, boards, wls, frames, durations, board, word_list,
                   board_inv, err_word_list, t_frames, t_durations, t_i,
                   prefix_board, prefix_wl, prefix_n, d_in, d_out, orderVars>>

\* 302-303 / 305-306: f, d, board, word_list = ...; frames += f; durations += d
TvtReceive ==
    /\ pc = "at_return"
    /\ scen \in 1 .. 5
    /\ board' = t_board
    /\ word_list' = t_word_list
    /\ frames' = frames \o t_frames
    /\ durations' = durations \o t_durations
    /\ turnNo' = turnNo + 1
    /\ pc' = IF turnNo = 1 THEN "tvt_call" ELSE "tvt_return"
    /\ UNCHANGED <<scen, boards, wls, board_inv, err_word_list, t_turn, t_is_error,
                   t_board, t_word_list, t_frames, t_durations, t_i, call_board,
                   call_wl, prefix_board, prefix_wl, prefix_n, d_in, d_out, orderVars>>

\* 308: return frames, durations, board, word_list
TvtReturn ==
    /\ pc = "tvt_return"
    /\ prefix_board' = boards[board]
    /\ prefix_wl' = wls[word_list]
    /\ prefix_n' = Len(frames)
    /\ saved_prefix' = IF saved_prefix # <<>> THEN saved_prefix
                       ELSE << [frames |-> frames, durations |-> durations,
                                board |-> boards[board],
                                word_list |-> wls[word_list]] >>
    /\ pc' = CASE scen = 1 -> "g1_copy"
               [] scen = 2 -> "g2_copy"
               [] scen = 3 -> "g3_copy"
               [] scen = 4 -> "g4_copy"
               [] scen = 5 -> "g5_copy"
    /\ UNCHANGED <<scen, turnNo, boards, wls, frames, durations, board, word_list,
                   board_inv, err_word_list, t_turn, t_is_error, t_board,
                   t_word_list, t_frames, t_durations, t_i, call_board, call_wl,
                   d_in, d_out, calls, base_b, base_w, saved>>

\* save_gif(frames, durations, path), 199-206
SaveGif ==
    /\ pc = "save"
    /\ Len(frames) >= 1
    /\ pc' = "main"
    /\ saved' = IF saved[scen] # <<>> THEN saved
                ELSE [saved EXCEPT ![scen] =
                         << [frames |-> frames, durations |-> durations] >>]
    /\ UNCHANGED <<scen, turnNo, boards, wls, frames, durations, board, word_list,
                   board_inv, err_word_list, t_turn, t_is_error, t_board,
                   t_word_list, t_frames, t_durations, t_i, call_board, call_wl,
                   prefix_board, prefix_wl, prefix_n, d_in, d_out, calls, base_b, base_w, saved_prefix>>

(* gif1: target cell occupied *)
\* 318
G1Copy == CopyForInvalid("g1_copy", "g1_highlight")
\* 319-322
G1Highlight ==
    Emit("g1_highlight", "g1_error",
         AppendFrame(make_frame(boards[board_inv],
                                [word_list |-> wls[word_list],
                                 highlights |-> HlSet(NoHighlights, <<2, 2>>, YELLOW_COLOR),
                                 status |-> <<"Placing on (2,2)...">>,
                                 status_color |-> MUTED]), 600))
\* 324-326
gif1_err_frame ==
    make_frame(boards[board_inv],
               [word_list |-> wls[word_list],
                highlights |-> HlSet(NoHighlights, <<2, 2>>, ERROR_COLOR),
                status |-> <<"x Cell occupied!">>,
                status_color |-> ERROR_COLOR])
\* 327-328
G1Error == Emit("g1_error", "save", ExtendError(gif1_err_frame))

(* gif2: new letter not in the path *)
\* 341
G2Copy == CopyForInvalid("g2_copy", "g2_place")
\* 342
G2Place == PlaceInvalid("g2_place", "g2_placed", <<4, 3>>, "T")
\* 344-346
G2Placed == PlacedInvalid("g2_placed", "g2_reveal", <<4, 3>>)
\* 350-351
gif2_bad_path == << <<2, 2>>, <<2, 3>>, <<2, 4>> >>
gif2_word_letters == <<"E", "N", "T">>
\* 352-358
G2Reveal ==
    /\ pc = "g2_reveal"
    /\ t_i <= Len(gif2_bad_path)
    /\ AppendFrame(make_frame(boards[board_inv],
                              [word_list |-> wls[word_list],
                               current_word |-> << <<"T">> \o Take(gif2_word_letters, t_i) >>,
                               current_word_color |-> PATH_COLOR,
                               path_cells |-> Take(gif2_bad_path, t_i),
                               new_letter_cell |-> << <<4, 3>> >>]), 300)
    /\ t_i' = t_i + 1
    /\ UNCHANGED <<pc, boards, wls, board_inv, err_word_list, gifFixed>>
\* 360-367
gif2_err_frame ==
    make_frame(boards[board_inv],
               [word_list |-> wls[word_list],
                current_word |-> << <<"T", "E", "N", "T">> >>,
                current_word_color |-> ERROR_COLOR,
                status |-> <<"x New letter not\nin path!">>,
                status_color |-> ERROR_COLOR,
                highlights |-> HlSet(HlOfPath(gif2_bad_path, ERROR_COLOR),
                                     <<4, 3>>, YELLOW_COLOR)])
\* 368-369
G2Error ==
    /\ t_i > Len(gif2_bad_path)
    /\ Emit("g2_reveal", "save", ExtendError(gif2_err_frame))

(* gif3: diagonal step *)
\* 381
G3Copy == CopyForInvalid("g3_copy", "g3_place")
\* 382
G3Place == PlaceInvalid("g3_place", "g3_placed", <<3, 1>>, "K")
\* 384-386
G3Placed == PlacedInvalid("g3_placed", "g3_start", <<3, 1>>)
\* 389-394
G3Start ==
    Emit("g3_start", "g3_error",
         AppendFrame(make_frame(boards[board_inv],
                                [word_list |-> wls[word_list],
                                 current_word |-> << <<"K">> >>,
                                 current_word_color |-> PATH_COLOR,
                                 path_cells |-> << <<3, 1>> >>,
                                 new_letter_cell |-> << <<3, 1>> >>]), 400))
\* 397-402: one line between the two cell centres, a cross at its midpoint
draw_diagonal_line ==
    LET p1 == cell_center(3, 1)
        p2 == cell_center(2, 2)
    IN [line |-> <<p1, p2>>, fill |-> ERROR_COLOR,
        mark |-> <<(p1[1] + p2[1]) \div 2 - 12, (p1[2] + p2[2]) \div 2 - 18>>]
\* 404-410
gif3_err_frame ==
    make_frame(boards[board_inv],
               [word_list |-> wls[word_list],
                current_word |-> << <<"K", "E", ".", ".", ".">> >>,
                current_word_color |-> ERROR_COLOR,
                status |-> <<"x Diagonal move!">>,
                status_color |-> ERROR_COLOR,
                highlights |-> HlSet(HlSet(NoHighlights, <<3, 1>>, ERROR_COLOR),
                                     <<2, 2>>, ERROR_COLOR),
                extra_draw |-> <<draw_diagonal_line>>])
\* 411-412
G3Error == Emit("g3_error", "save", ExtendError(gif3_err_frame))

(* gif4: cell revisited *)
\* 425
G4Copy == CopyForInvalid("g4_copy", "g4_place")
\* 426
G4Place == PlaceInvalid("g4_place", "g4_placed", <<3, 1>>, "O")
\* 428-430
G4Placed == PlacedInvalid("g4_placed", "g4_reveal", <<3, 1>>)
\* 432
gif4_attempt_path == << <<3, 1>>, <<2, 1>>, <<2, 2>> >>
\* 433-439
G4Reveal ==
    /\ pc = "g4_reveal"
    /\ t_i <= Len(gif4_attempt_path)
    /\ AppendFrame(make_frame(boards[board_inv],
                              [word_list |-> wls[word_list],
                               current_word |-> <<Take(<<"O", "G", "E">>, t_i)>>,
                               current_word_color |-> PATH_COLOR,
                               path_cells |-> Take(gif4_attempt_path, t_i),
                               new_letter_cell |-> << <<3, 1>> >>]), 400)
    /\ t_i' = t_i + 1
    /\ UNCHANGED <<pc, boards, wls, board_inv, err_word_list, gifFixed>>
\* 442-448
gif4_err_frame ==
    make_frame(boards[board_inv],
               [word_list |-> wls[word_list],
                current_word |-> << <<"O", "G", "E", "G", "?">> >>,
                current_word_color |-> ERROR_COLOR,
                status |-> <<"x Cell already\nvisited!">>,
                status_color |-> ERROR_COLOR,
                highlights |-> HlSet(HlSet(HlSet(NoHighlights, <<3, 1>>, PATH_COLOR),
                                           <<2, 2>>, PATH_COLOR),
                                     <<2, 1>>, ERROR_COLOR)])
\* 449-450
G4Error ==
    /\ t_i > Len(gif4_attempt_path)
    /\ Emit("g4_reveal", "save", ExtendError(gif4_err_frame))

(* gif5: repeated word *)
\* 463
G5Copy == CopyForInvalid("g5_copy", "g5_place")
\* 464
G5Place == PlaceInvalid("g5_place", "g5_placed", <<3, 1>>, "E")
\* 467-469
G5Placed == PlacedInvalid("g5_placed", "g5_reveal", <<3, 1>>)
gif5_dup_path_ofTurn1 == << <<1, 0>>, <<2, 0>>, <<2, 1>>, <<2, 2>> >>
\* 465
gif5_dup_path == << <<1, 0>>, <<2, 0>>, <<2, 1>>, <<3, 1>> >>
\* 471-477
G5Reveal ==
    /\ pc = "g5_reveal"
    /\ t_i <= Len(gif5_dup_path)
    /\ AppendFrame(make_frame(boards[board_inv],
                              [word_list |-> wls[word_list],
                               current_word |-> <<Take(RAGE, t_i)>>,
                               current_word_color |-> PATH_COLOR,
                               path_cells |-> Take(gif5_dup_path, t_i),
                               new_letter_cell |-> << <<3, 1>> >>]), 350)
    /\ t_i' = t_i + 1
    /\ UNCHANGED <<pc, boards, wls, board_inv, err_word_list, gifFixed>>
\* 480-481: [(w, ERROR_COLOR if w == "RAGE" else c) for w, c in word_list]
recolour_all(h, w) ==
    [heap |-> Append(h, [k \in DOMAIN h[w] |-> <<h[w][k][1], ERROR_COLOR>>]),
     ref |-> Len(h) + 1]
recolour(h, w) ==
    [heap |-> Append(h, [k \in DOMAIN h[w] |->
                  <<h[w][k][1], IF h[w][k][1] = RAGE THEN ERROR_COLOR ELSE h[w][k][2]>>]),
     ref |-> Len(h) + 1]
G5ErrList ==
    /\ pc = "g5_reveal"
    /\ t_i > Len(gif5_dup_path)
    /\ LET rc == recolour(wls, word_list) IN
        /\ wls' = rc.heap
        /\ err_word_list' = rc.ref
    /\ pc' = "g5_error"
    /\ UNCHANGED <<boards, frames, durations, board_inv, t_i, gifFixed>>
\* 482-488
gif5_err_frame ==
    make_frame(boards[board_inv],
               [word_list |-> wls[err_word_list],
                current_word |-> <<RAGE>>,
                current_word_color |-> ERROR_COLOR,
                status |-> <<"x Already used!">>,
                status_color |-> ERROR_COLOR,
                highlights |-> HlOfPath(gif5_dup_path, ERROR_COLOR)])
\* 489-490
G5Error == Emit("g5_error", "save", ExtendError(gif5_err_frame))

(* gif6: three static panels, no board and no word list; the markdown *)
(* fence of the wrong output is written with apostrophes             *)
gif6_correct == <<"1 0 R", "RAGE", "1,0 2,0 2,1 2,2">>
gif6_wrong == <<"I'll place 'R' at row 1, col 0", "forming the word RAGE.", "",
                "'''", "1 0 R", "RAGE", "1,0 2,0 2,1 2,2", "'''">>
\* 513-521
gif6_img1 ==
    [bg |-> BG, title |-> "v Correct format", lines |-> gif6_correct,
     title_color |-> VALID_COLOR, line_color |-> VALID_COLOR,
     border_color |-> VALID_COLOR, strike |-> FALSE,
     notes |-> <<"Line 1: row col letter", "Line 2: word",
                 "Line 3: path as row,col pairs">>]
\* 536-541
gif6_img2 ==
    [bg |-> BG, title |-> "Model output", lines |-> gif6_wrong,
     title_color |-> DARK, line_color |-> <<120, 80, 80>>,
     border_color |-> MUTED, strike |-> FALSE,
     notes |-> <<"Extra text + markdown wrapping",
                 "-> parser cannot extract the move">>]
\* 546-553
gif6_img3 ==
    [bg |-> <<255, 242, 240>>, title |-> "x REJECTED", lines |-> gif6_wrong,
     title_color |-> ERROR_COLOR, line_color |-> ERROR_COLOR,
     border_color |-> ERROR_COLOR, strike |-> TRUE,
     notes |-> <<"Parse failure -> move skipped">>]
\* 499-500, 522-523
G6Correct == Emit("g6_correct", "g6_wrong", AppendFrame(gif6_img1, 3000))
\* 542-543
G6Wrong == Emit("g6_wrong", "g6_rejected", AppendFrame(gif6_img2, 3000))
\* 554-555
G6Rejected == Emit("g6_rejected", "save", ExtendError(gif6_img3))

-----------------------------------------------------------------------------
(* The rejected third turn each board scenario scripts: target cell, letter, *)
(* claimed word and claimed path; <<>> where the scenario scripts none       *)

\* 317-326: only a target cell; no letter is written, no word, no path
gif1_turn == [cell |-> <<2, 2>>, letter |-> <<>>, word |-> <<>>, path |-> <<>>]
\* 339-364
gif2_turn == [cell |-> <<4, 3>>, letter |-> <<"T">>,
              word |-> << <<"T", "E", "N", "T">> >>, path |-> <<gif2_bad_path>>]
\* 380-408: the step K(3,1) -> E(2,2)
gif3_turn == [cell |-> <<3, 1>>, letter |-> <<"K">>,
              word |-> << <<"K", "E", ".", ".", ".">> >>,
              path |-> << << <<3, 1>>, <<2, 2>> >> >>]
\* 423-445: O(3,1) -> G(2,1) -> E(2,2) -> G(2,1)
gif4_turn == [cell |-> <<3, 1>>, letter |-> <<"O">>,
              word |-> << <<"O", "G", "E", "G", "?">> >>,
              path |-> <<gif4_attempt_path \o << <<2, 1>> >> >>]
\* 461-485
gif5_turn == [cell |-> <<3, 1>>, letter |-> <<"E">>,
              word |-> <<RAGE>>, path |-> <<gif5_dup_path>>]

-----------------------------------------------------------------------------
(* The program: main *)

Init ==
    /\ pc = "main"
    /\ scen = 0
    /\ turnNo = 0
    /\ boards = <<>>
    /\ wls = <<>>
    /\ frames = <<>>
    /\ durations = <<>>
    /\ board = 0
    /\ word_list = 0
    /\ board_inv = 0
    /\ err_word_list = 0
    /\ t_turn = TURN1
    /\ t_is_error = FALSE
    /\ t_board = 0
    /\ t_word_list = 0
    /\ t_frames = <<>>
    /\ t_durations = <<>>
    /\ t_i = 0
    /\ call_board = <<>>
    /\ call_wl = <<>>
    /\ prefix_board = <<>>
    /\ prefix_wl = <<>>
    /\ prefix_n = 0
    /\ OrderInit
    /\ d_in = <<>>
    /\ d_out = <<>>

Next ==
    \/ GifCall
    \/ MainDone
    \/ GifStart
    \/ TvtCall
    \/ AnimateTurn
    \/ TvtReceive
    \/ TvtReturn
    \/ SaveGif
    \/ G1Copy \/ G1Highlight \/ G1Error
    \/ G2Copy \/ G2Place \/ G2Placed \/ G2Reveal \/ G2Error
    \/ G3Copy \/ G3Place \/ G3Placed \/ G3Start \/ G3Error
    \/ G4Copy \/ G4Place \/ G4Placed \/ G4Reveal \/ G4Error
    \/ G5Copy \/ G5Place \/ G5Placed \/ G5Reveal \/ G5ErrList \/ G5Error
    \/ G6Correct \/ G6Wrong \/ G6Rejected

Spec == Init /\ [][Next]_vars

-----------------------------------------------------------------------------
(* animate_turn as main calls it, and called on inputs drawn from bounded  *)
(* sets (a call on such inputs ends at the return statement)               *)

SpecTurn == (Init \/ InitTurn) /\ [][Next]_vars

-----------------------------------------------------------------------------
(* draw_board called on boards and overlays drawn from bounded sets *)

MaxDrawPathLen == 2

DrawCells == {<<0, 0>>, <<1, 0>>, <<2, 2>>}
DrawColors == {YELLOW_COLOR, ERROR_COLOR}
DrawHighlights ==
    {[x \in Cells |-> IF x \in DrawCells THEN h[x] ELSE <<>>] :
        h \in [DrawCells -> {<<>>} \cup {<<col>> : col \in DrawColors}]}
DrawPaths ==
    UNION {[1 .. n -> DrawCells] : n \in 0 .. MaxDrawPathLen}
DrawNewCells == {<<>>} \cup {<<x>> : x \in DrawCells}

InitDraw ==
    /\ pc = "draw_call"
    /\ \E b \in InputBoards, h \in DrawHighlights, p \in DrawPaths, n \in DrawNewCells :
          d_in = [board |-> b, highlights |-> h, path_cells |-> p, new_letter_cell |-> n]
    /\ d_out = <<>>
    /\ scen = 0
    /\ turnNo = 0
    /\ boards = <<>>
    /\ wls = <<>>
    /\ frames = <<>>
    /\ durations = <<>>
    /\ board = 0
    /\ word_list = 0
    /\ board_inv = 0
    /\ err_word_list = 0
    /\ t_turn = TURN1
    /\ t_is_error = FALSE
    /\ t_board = 0
    /\ t_word_list = 0
    /\ t_frames = <<>>
    /\ t_durations = <<>>
    /\ t_i = 0
    /\ call_board = <<>>
    /\ call_wl = <<>>
    /\ prefix_board = <<>>
    /\ prefix_wl = <<>>
    /\ prefix_n = 0
    /\ OrderInit

\* 91-117: the fills of one call of draw_board
DrawBoard ==
    /\ pc = "draw_call"
    /\ d_out' = draw_board(d_in.board, d_in.highlights, d_in.path_cells,
                           d_in.new_letter_cell)
    /\ pc' = "draw_done"
    /\ UNCHANGED <<d_in, scen, turnNo, boards, wls, frames, durations, board,
                   word_list, board_inv, err_word_list, t_turn, t_is_error,
                   t_board, t_word_list, t_frames, t_durations, t_i, call_board,
                   call_wl, prefix_board, prefix_wl, prefix_n, orderVars>>

\* the scenarios called one after another in any order, with repetition
NextOrder ==
    \/ GifCallAny
    \/ GifStart
    \/ TvtCall
    \/ AnimateTurn
    \/ TvtReceive
    \/ TvtReturn
    \/ SaveGif
    \/ G1Copy \/ G1Highlight \/ G1Error
    \/ G2Copy \/ G2Place \/ G2Placed \/ G2Reveal \/ G2Error
    \/ G3Copy \/ G3Place \/ G3Placed \/ G3Start \/ G3Error
    \/ G4Copy \/ G4Place \/ G4Placed \/ G4Reveal \/ G4Error
    \/ G5Copy \/ G5Place \/ G5Placed \/ G5Reveal \/ G5ErrList \/ G5Error
    \/ G6Correct \/ G6Wrong \/ G6Rejected

SpecOrder == Init /\ [][NextOrder]_vars

NextDraw == DrawBoard

SpecDraw == InitDraw /\ [][NextDraw]_vars

-----------------------------------------------------------------------------
(* Properties *)

CellOf(b, x) == b[x[1]][x[2]]
Differ(b1, b2) == {x \in Cells : CellOf(b1, x) # CellOf(b2, x)}
NonEmpty(b) == {x \in Cells : CellOf(b, x) # "."}
RowOf(b, r) == [k \in 1 .. N |-> b[r][k - 1]]
WordsOf(wl) == [k \in DOMAIN wl |-> wl[k][1]]

\* C1: an accepted turn run through animate_turn on a board whose target
\* cell is empty returns a board that differs from the board passed in at
\* exactly the new-letter cell, which holds the turn's letter, and the board
\* object passed in is unchanged after the call.
C1_AcceptedTurnCopyOnWrite ==
    (pc = "at_return" /\ ~t_is_error /\ CellOf(call_board, t_turn.cell) = ".") =>
        /\ Differ(boards[t_board], call_board) = {t_turn.cell}
        /\ CellOf(boards[t_board], t_turn.cell) = t_turn.letter
        /\ boards[board] = call_board

C1_Witness ==
    /\ pc = "at_return"
    /\ ~t_is_error
    /\ scen = 0
    /\ CellOf(call_board, t_turn.cell) = "."
    /\ CellOf(boards[t_board], t_turn.cell) = t_turn.letter
    /\ CellOf(boards[board], t_turn.cell) = "."

\* C2: on the reject path (is_error = True) the board and the word list
\* animate_turn returns are identical to the board and the word list it was
\* given.
C2_RejectReturnsItsInputs ==
    (pc = "at_return" /\ t_is_error) =>
        /\ boards[t_board] = call_board
        /\ wls[t_word_list] = call_wl

\* C3: in the scenarios built on two_valid_turns, the board and the word
\* list it returned are unchanged by the construction of the rejected third
\* turn, up to and including the moment the frames are handed to the encoder;
\* the board the third turn works on is a separate object.
C3_PrefixUntouchedByRejectedTurn ==
    (scen \in 1 .. 5 /\ prefix_n > 0) =>
        /\ boards[board] = prefix_board
        /\ wls[word_list] = prefix_wl
        /\ (pc = "save" => board_inv # 0 /\ board_inv # board)

C3_Witness ==
    /\ pc = "save"
    /\ scen = 2
    /\ CellOf(boards[board_inv], <<4, 3>>) = "T"
    /\ CellOf(boards[board], <<4, 3>>) = "."
    /\ boards[board] = prefix_board

\* C4: placing a letter into a cell that is not empty fails and leaves the
\* board unchanged; a placement never overwrites an existing letter.
C4_OccupiedPlacementLeavesBoard ==
    (/\ pc \in {"at_placed", "at_reveal", "at_append", "at_final", "at_return"}
     /\ CellOf(call_board, t_turn.cell) # ".") =>
        boards[t_board] = call_board

IsRevealFrame(f) == f.current_word # <<>> /\ f.current_word_color = PATH_COLOR
ThirdTurnFrames == SubSeq(frames, prefix_n + 1, Len(frames))
ScenarioRevealPath ==
    CASE scen = 2 -> gif2_bad_path
      [] scen = 3 -> << <<3, 1>> >>
      [] scen = 4 -> gif4_attempt_path
      [] scen = 5 -> gif5_dup_path

\* the reveal frames among fs are one per element of path, the i-th showing
\* the first i path cells and a current word of i + extra letters
RevealPhase(fs, path, extra) ==
    LET R == SelectSeq(fs, IsRevealFrame) IN
    /\ Len(R) = Len(path)
    /\ \A i \in 1 .. Len(R) :
        /\ R[i].path_cells = SubSeq(path, 1, i)
        /\ Len(R[i].current_word[1]) = i + extra

NoOverlay(f) ==
    /\ f.highlights = NoHighlights
    /\ f.path_cells = <<>>
    /\ f.new_letter_cell = <<>>
TargetHighlightFrame(f) ==
    /\ f.highlights = HlSet(NoHighlights, t_turn.cell, YELLOW_COLOR)
    /\ f.path_cells = <<>>
    /\ f.new_letter_cell = <<>>
    /\ f.current_word = <<>>
    /\ f.status = <<>>
    /\ f.board = call_board
LetterPlacedFrame(f) ==
    /\ f.highlights = NoHighlights
    /\ f.path_cells = <<>>
    /\ f.new_letter_cell = <<t_turn.cell>>
    /\ f.current_word = <<>>
    /\ f.status = <<>>
    /\ CellOf(f.board, t_turn.cell) = t_turn.letter
PathRevealFrame(f, k) ==
    /\ IsRevealFrame(f)
    /\ f.path_cells = SubSeq(t_turn.path, 1, k)
    /\ f.status = <<>>
OutcomeFrame(f, text) ==
    /\ f.status = <<text>>
    /\ f.current_word = <<t_turn.word>>
CarriedFrame(f) ==
    /\ NoOverlay(f)
    /\ f.current_word = <<>>
    /\ f.status = <<>>
    /\ f.word_list = Append(call_wl, <<t_turn.word, VALID_COLOR>>)

\* C6: the frames animate_turn emits for one turn are, in this order and
\* nothing else: one target-highlight frame (500 ms), one letter-placed frame
\* (500 ms), len(path) path-reveal frames (350 ms each), then 6 identical
\* "Valid" frames (150 ms each) and one carried-forward frame (600 ms) on
\* accept, or 20 identical "Invalid" frames (150 ms each) and nothing after
\* on reject.
C6_TurnFrameOrder ==
    (pc = "at_return") =>
        LET n == Len(t_turn.path)
            hold == IF t_is_error THEN 20 ELSE 6
            F == t_frames
            D == t_durations
        IN
        /\ Len(F) = Len(D)
        /\ Len(F) = 2 + n + hold + (IF t_is_error THEN 0 ELSE 1)
        /\ TargetHighlightFrame(F[1]) /\ D[1] = 500
        /\ LetterPlacedFrame(F[2]) /\ D[2] = 500
        /\ \A k \in 1 .. n : PathRevealFrame(F[2 + k], k) /\ D[2 + k] = 350
        /\ \A k \in 1 .. hold :
            /\ F[2 + n + k] = F[2 + n + 1]
            /\ D[2 + n + k] = 150
            /\ OutcomeFrame(F[2 + n + k], IF t_is_error THEN "x INVALID" ELSE "v Valid")
        /\ ~t_is_error => (CarriedFrame(F[Len(F)]) /\ D[Len(F)] = 600)
        /\ \A k \in 2 .. Len(F) : ~TargetHighlightFrame(F[k])
        /\ \A k \in 3 .. Len(F) : ~LetterPlacedFrame(F[k])
        /\ \A k \in 1 .. n : D[2 + k] < D[1] /\ D[2 + k] < D[2]
        /\ 20 * FRAME_MS > 6 * FRAME_MS

C6_Witness ==
    /\ pc = "at_return"
    /\ t_is_error
    /\ Len(t_turn.path) = 3
    /\ Len(t_frames) = 25
    /\ t_durations[25] = 150

\* C7 (as stated): for all six scenarios the first two turns are accepted:
\* when the frames are handed to the encoder the scenario has a board with
\* exactly two more non-empty cells than the initial board and a word list of
\* exactly two entries, both of normal status.
C7_AllSixHaveTwoAcceptedTurns ==
    (pc = "save") =>
        /\ turnNo = 3
        /\ board # 0
        /\ word_list # 0
        /\ Cardinality(NonEmpty(boards[board])) = Cardinality(NonEmpty(initial_board)) + 2
        /\ Len(wls[word_list]) = 2
        /\ \A k \in 1 .. 2 : wls[word_list][k][2] = VALID_COLOR

\* C7 (amended): for the five board scenarios gif1..gif5, once the two turns
\* have run the board has exactly two more non-empty cells than the initial
\* board and the word list has exactly two entries, both of normal status;
\* scenario 6 runs no turn and has no board and no word list.
C7_BoardScenariosHaveTwoAcceptedTurns ==
    /\ (scen \in 1 .. 5 /\ turnNo = 3) =>
        /\ Cardinality(NonEmpty(boards[board])) = Cardinality(NonEmpty(initial_board)) + 2
        /\ Len(wls[word_list]) = 2
        /\ \A k \in 1 .. 2 : wls[word_list][k][2] = VALID_COLOR
    /\ (scen \in 1 .. 5 /\ pc = "save") => turnNo = 3
    /\ (scen = 6) => (turnNo = 0 /\ board = 0 /\ word_list = 0)

C7_Witness ==
    /\ pc = "save"
    /\ scen = 3
    /\ turnNo = 3
    /\ Cardinality(NonEmpty(boards[board])) = 7
    /\ Len(wls[word_list]) = 2

\* C8: from the 5x5 initial board (row 2 = A,G,E,N,T, all else empty), after
\* turn 1 row 1 is R,.,.,.,. and every other row is as initially; after turn
\* 2 row 3 is .,.,D,.,., row 1 is still R,.,.,.,., rows 0, 2 and 4 are as
\* initially, and the word list is [RAGE, DENT].
C8_EndToEndBoards ==
    LET empty == <<".", ".", ".", ".", ".">>
        agent == <<"A", "G", "E", "N", "T">>
        rrow == <<"R", ".", ".", ".", ".">>
        drow == <<".", ".", "D", ".", ".">>
        rows(b) == <<RowOf(b, 0), RowOf(b, 1), RowOf(b, 2), RowOf(b, 3), RowOf(b, 4)>>
    IN
    /\ (scen \in 1 .. 5 /\ turnNo = 1 /\ pc = "tvt_call") =>
            rows(boards[board]) = <<empty, empty, agent, empty, empty>>
    /\ (scen \in 1 .. 5 /\ turnNo = 2) =>
            /\ rows(boards[board]) = <<empty, rrow, agent, empty, empty>>
            /\ WordsOf(wls[word_list]) = <<RAGE>>
    /\ (scen \in 1 .. 5 /\ turnNo = 3) =>
            /\ rows(boards[board]) = <<empty, rrow, agent, drow, empty>>
            /\ WordsOf(wls[word_list]) = <<RAGE, DENT>>

C8_Witness ==
    /\ pc = "tvt_return"
    /\ scen = 1
    /\ turnNo = 3
    /\ CellOf(boards[board], <<1, 0>>) = "R"
    /\ CellOf(boards[board], <<3, 2>>) = "D"

\* C9: in scenario 5 the word list shown in the terminal reject frame has the
\* same length and the same words in the same order as the accepted word
\* list; the entry of RAGE has error status, every other entry keeps its
\* status, and nothing is appended for the rejected word.
C9_DuplicateWordRecoloured ==
    (pc = "save" /\ scen = 5) =>
        LET f == frames[Len(frames)]
            acc == wls[word_list]
        IN
        /\ f.status = <<"x Already used!">>
        /\ acc = prefix_wl
        /\ Len(f.word_list) = Len(acc)
        /\ WordsOf(f.word_list) = WordsOf(acc)
        /\ \E k \in DOMAIN acc : acc[k][1] = RAGE
        /\ \A k \in DOMAIN acc :
            f.word_list[k][2] = IF acc[k][1] = RAGE THEN ERROR_COLOR ELSE acc[k][2]

C9_Witness ==
    /\ pc = "save"
    /\ scen = 5
    /\ frames[Len(frames)].word_list = << <<RAGE, ERROR_COLOR>>, <<DENT, VALID_COLOR>> >>
    /\ wls[word_list] = << <<RAGE, VALID_COLOR>>, <<DENT, VALID_COLOR>> >>

\* C10: the fill draw_board resolves for a cell is given by the first
\* matching rule of: highlight entry -> its colour; new-letter cell -> success
\* green; path member -> path blue; empty cell -> empty fill; otherwise
\* letter fill.
C10_FillPriority ==
    (pc = "draw_done") =>
        \A x \in Cells :
            LET out == CellOf(d_out, x)
                hl == d_in.highlights[x] # <<>>
                new == d_in.new_letter_cell = <<x>>
                inPath == \E k \in DOMAIN d_in.path_cells : d_in.path_cells[k] = x
                empty == CellOf(d_in.board, x) = "."
            IN
            /\ hl => out = d_in.highlights[x][1]
            /\ (~hl /\ new) => out = NEW_COLOR
            /\ (~hl /\ ~new /\ inPath) => out = PATH_COLOR
            /\ (~hl /\ ~new /\ ~inPath /\ empty) => out = EMPTY_FILL
            /\ (~hl /\ ~new /\ ~inPath /\ ~empty) => out = LETTER_FILL

C10_Witness ==
    /\ pc = "draw_done"
    /\ d_in.highlights[<<2, 2>>] = <<YELLOW_COLOR>>
    /\ d_in.new_letter_cell = << <<1, 0>> >>
    /\ d_in.path_cells = << <<1, 0>>, <<2, 2>> >>
    /\ CellOf(d_out, <<2, 2>>) = YELLOW_COLOR
    /\ CellOf(d_out, <<1, 0>>) = NEW_COLOR

-----------------------------------------------------------------------------
ThirdTurn ==
    CASE scen = 1 -> gif1_turn
      [] scen = 2 -> gif2_turn
      [] scen = 3 -> gif3_turn
      [] scen = 4 -> gif4_turn
      [] scen = 5 -> gif5_turn

\* the five board rules, judged for turn t against board b and word list wl;
\* a rule about the path or the word is judged only of a turn that claims one
DiagonalStep(x, y) == x[1] # y[1] /\ x[2] # y[2]
BrokenRules(t, b, wl) ==
    {r \in {"occupied", "not_in_path", "diagonal", "repeated", "duplicate"} :
        CASE r = "occupied" -> CellOf(b, t.cell) # "."
          [] r = "not_in_path" -> t.path # <<>> /\ t.cell \notin Range(t.path[1])
          [] r = "diagonal" ->
                t.path # <<>> /\ \E k \in 1 .. (Len(t.path[1]) - 1) :
                                    DiagonalStep(t.path[1][k], t.path[1][k + 1])
          [] r = "repeated" ->
                t.path # <<>> /\ \E i, j \in DOMAIN t.path[1] :
                                    i < j /\ t.path[1][i] = t.path[1][j]
          [] r = "duplicate" ->
                t.word # <<>> /\ \E k \in DOMAIN wl : wl[k][1] = t.word[1]}
\* the rule each gifN is written to illustrate (docstrings of gif1..gif5)
Illustrated ==
    CASE scen = 1 -> "occupied"
      [] scen = 2 -> "not_in_path"
      [] scen = 3 -> "diagonal"
      [] scen = 4 -> "repeated"
      [] scen = 5 -> "duplicate"

\* C11: in each of scenarios 1 to 5 the rejected third turn, judged against
\* the board and the word list left by the two accepted turns, breaks exactly
\* one of the five board rules, the one the scenario illustrates, and
\* satisfies the other four.  The turn judged is the one the frames show: its
\* letter is the one cell the invalid copy adds and its word is the word of
\* the terminal frame.
C11_ExactlyOneRuleBroken ==
    (pc = "save" /\ scen \in 1 .. 5) =>
        /\ BrokenRules(ThirdTurn, boards[board], wls[word_list]) = {Illustrated}
        /\ (scen = 1) => Differ(boards[board_inv], boards[board]) = {}
        /\ (scen \in 2 .. 5) =>
            /\ Differ(boards[board_inv], boards[board]) = {ThirdTurn.cell}
            /\ <<CellOf(boards[board_inv], ThirdTurn.cell)>> = ThirdTurn.letter
            /\ frames[Len(frames)].current_word = ThirdTurn.word

C11_Witness ==
    /\ pc = "save"
    /\ scen = 4
    /\ BrokenRules(gif4_turn, boards[board], wls[word_list]) = {"repeated"}
    /\ CellOf(boards[board_inv], <<3, 1>>) = "O"

-----------------------------------------------------------------------------
\* cells a frame's highlight mapping marks
Highlighted(f) == {x \in Cells : f.highlights[x] # <<>>}

\* C12: in scenario 3 the third turn places K at (3,1), and the terminal
\* frame has no path-cells list and no new-letter cell; its highlight mapping
\* marks exactly (3,1) and (2,2), both in error colour; and the only line on
\* it is the one the extra drawing adds, from the centre of (3,1), pixel
\* (114, 234), to the centre of (2,2), pixel (174, 174), in error colour.
C12_Scenario3TerminalFrame ==
    (pc = "save" /\ scen = 3) =>
        LET f == frames[Len(frames)] IN
        /\ CellOf(boards[board_inv], <<3, 1>>) = "K"
        /\ CellOf(boards[board], <<3, 1>>) = "."
        /\ f.board = boards[board_inv]
        /\ f.path_cells = <<>>
        /\ f.new_letter_cell = <<>>
        /\ Highlighted(f) = {<<3, 1>>, <<2, 2>>}
        /\ \A x \in Highlighted(f) : f.highlights[x] = <<ERROR_COLOR>>
        /\ \A x \in Cells :
              f.fill[x[1]][x[2]] =
                  IF x \in {<<3, 1>>, <<2, 2>>} THEN ERROR_COLOR
                  ELSE IF CellOf(f.board, x) = "." THEN EMPTY_FILL
                  ELSE LETTER_FILL
        /\ connectors(f.path_cells) = <<>>
        /\ Len(f.extra_draw) = 1
        /\ f.extra_draw[1].line = << <<114, 234>>, <<174, 174>> >>
        /\ f.extra_draw[1].fill = ERROR_COLOR
        /\ \A k \in (Len(frames) - 19) .. Len(frames) : frames[k] = f

C12_Witness ==
    /\ pc = "save"
    /\ scen = 3
    /\ frames[Len(frames)].extra_draw # <<>>
    /\ frames[Len(frames)].highlights[<<2, 2>>] = <<ERROR_COLOR>>

-----------------------------------------------------------------------------
\* the colour frame f resolves for cell x
FillOf(f, x) == f.fill[x[1]][x[2]]
\* every cell of xs resolves to colour col in frame f
AllFill(f, xs, col) == \A x \in xs : FillOf(f, x) = col
\* the terminal frame of a rejected run of animate_turn
TurnRejected == pc = "at_return" /\ t_is_error
\* a scenario with a third-turn path has reached save_gif
PathScenarioDone == pc = "save" /\ scen \in 2 .. 5

\* C13 as stated: in the terminal reject frame of every rejected turn that
\* has a path (the reject branch of animate_turn and the terminal frames of
\* scenarios 2, 3, 4 and 5) every path cell and the new-letter cell resolve to
\* the error colour.
C13_RejectFrameAllError ==
    /\ TurnRejected =>
          AllFill(t_frames[Len(t_frames)],
                  Range(t_turn.path) \cup {t_turn.cell}, ERROR_COLOR)
    /\ PathScenarioDone =>
          AllFill(frames[Len(frames)],
                  Range(ThirdTurn.path[1]) \cup {ThirdTurn.cell}, ERROR_COLOR)

\* C13 amended: every path cell and the new-letter cell resolve to the error
\* colour in the terminal frame of animate_turn's reject branch and of
\* scenarios 3 and 5.  In scenario 2 the three path cells resolve to the error
\* colour and the new-letter cell (4,3) to yellow; in scenario 4 only the
\* revisited cell (2,1) resolves to the error colour, (3,1) and (2,2) resolve
\* to the path colour.
C13_RejectFrameColours ==
    /\ TurnRejected =>
          AllFill(t_frames[Len(t_frames)],
                  Range(t_turn.path) \cup {t_turn.cell}, ERROR_COLOR)
    /\ (PathScenarioDone /\ scen \in {3, 5}) =>
          AllFill(frames[Len(frames)],
                  Range(ThirdTurn.path[1]) \cup {ThirdTurn.cell}, ERROR_COLOR)
    /\ (PathScenarioDone /\ scen = 2) =>
          /\ AllFill(frames[Len(frames)],
                     {<<2, 2>>, <<2, 3>>, <<2, 4>>}, ERROR_COLOR)
          /\ FillOf(frames[Len(frames)], <<4, 3>>) = YELLOW_COLOR
    /\ (PathScenarioDone /\ scen = 4) =>
          /\ FillOf(frames[Len(frames)], <<2, 1>>) = ERROR_COLOR
          /\ AllFill(frames[Len(frames)], {<<3, 1>>, <<2, 2>>}, PATH_COLOR)

\* a rejected run of animate_turn whose new-letter cell is off its path
C13_Witness ==
    /\ TurnRejected
    /\ t_turn.path # <<>>
    /\ t_turn.cell \notin Range(t_turn.path)
    /\ FillOf(t_frames[Len(t_frames)], t_turn.cell) = ERROR_COLOR

-----------------------------------------------------------------------------
\* the states from which the next statement writes a letter into a board:
\* line 252 of animate_turn and the board_inv[r][c] = ... lines of gif2..gif5
AtTurnWrite == pc = "at_place"
AtScenarioWrite == pc \in {"g2_place", "g3_place", "g4_place", "g5_place"}

\* the cell about to be written is inside the grid and empty
WriteTargetsEmpty ==
    /\ AtTurnWrite =>
          /\ t_turn.cell \in Cells
          /\ CellOf(boards[t_board], t_turn.cell) = "."
          /\ t_turn.letter # "."
    /\ AtScenarioWrite =>
          /\ ThirdTurn.cell \in Cells
          /\ CellOf(boards[board_inv], ThirdTurn.cell) = "."
          /\ ThirdTurn.letter # <<".">>

\* one step: no board object disappears; a write changes exactly one cell of
\* exactly one board, from empty to a letter; no other step changes a cell
WriteOnceStep ==
    /\ Len(boards') >= Len(boards)
    /\ \A b \in DOMAIN boards : \A x \in Cells :
          \/ CellOf(boards'[b], x) = CellOf(boards[b], x)
          \/ /\ AtTurnWrite \/ AtScenarioWrite
             /\ CellOf(boards[b], x) = "."
             /\ CellOf(boards'[b], x) # "."
    /\ (AtTurnWrite \/ AtScenarioWrite) =>
          /\ Len(boards') = Len(boards)
          /\ \E b \in DOMAIN boards : \E x \in Cells :
                /\ Differ(boards'[b], boards[b]) = {x}
                /\ \A o \in DOMAIN boards \ {b} : boards'[o] = boards[o]

\* C14: across the whole run of main every write of a letter into a board or
\* board copy targets a cell inside the 5x5 grid that is empty at that time,
\* and in every step every cell of every board either keeps its content or
\* goes from empty to a letter; so no letter is overwritten or cleared.
C14_WriteOnce == []WriteTargetsEmpty /\ [][WriteOnceStep]_vars

\* scenario 5 has written E into the empty cell (3,1) of its invalid copy
C14_Witness ==
    /\ pc = "g5_placed"
    /\ CellOf(boards[board_inv], <<3, 1>>) = "E"
    /\ CellOf(boards[board], <<3, 1>>) = "."
    /\ Cardinality(NonEmpty(boards[board_inv])) = 8

-----------------------------------------------------------------------------
\* consecutive coordinates differ by one in exactly one of row and column
AbsDiff(m, n) == IF m < n THEN n - m ELSE m - n
OrthogonalSteps(p) ==
    \A k \in 1 .. (Len(p) - 1) :
        AbsDiff(p[k][1], p[k + 1][1]) + AbsDiff(p[k][2], p[k + 1][2]) = 1
NoRepeat(p) == \A i, j \in DOMAIN p : i # j => p[i] # p[j]
\* an accepted turn of the prefix has returned
AcceptedTurnDone == pc = "at_return" /\ scen \in 1 .. 5 /\ ~t_is_error
\* the accepted turns: the path starts at the cell the turn wrote, its steps
\* are orthogonal and no coordinate occurs twice
AcceptedPathsValid ==
    AcceptedTurnDone =>
        /\ t_turn.path # <<>>
        /\ t_turn.path[1] = t_turn.cell
        /\ Differ(boards[t_board], call_board) = {t_turn.path[1]}
        /\ OrthogonalSteps(t_turn.path)
        /\ NoRepeat(t_turn.path)
\* the first path cell a scenario's third turn reveals is the first
\* coordinate of its scripted path
FirstRevealed ==
    PathScenarioDone =>
        \E k \in DOMAIN frames :
            /\ k > prefix_n
            /\ frames[k].path_cells = <<ThirdTurn.path[1][1]>>
            /\ \A j \in (prefix_n + 1) .. (k - 1) : frames[j].path_cells = <<>>

\* C15 as stated: for every scripted turn that has a path (the two accepted
\* turns and the rejected turns of scenarios 2 to 5) the first coordinate of
\* the path is the cell of the newly placed letter; and the paths of the two
\* accepted turns are orthogonal and without repetition.
C15_PathStartsAtNewCell ==
    /\ AcceptedPathsValid
    /\ PathScenarioDone => ThirdTurn.path[1][1] = ThirdTurn.cell

\* C15 amended: the path starts at the cell of the newly placed letter for the
\* two accepted turns and for the rejected turns of scenarios 3 and 4.  The
\* path of scenario 2 starts at (2,2) and does not contain the new cell (4,3);
\* the path of scenario 5 starts at (1,0) and ends at the new cell (3,1).  The
\* paths of the two accepted turns are orthogonal and without repetition.
C15_PathStarts ==
    /\ AcceptedPathsValid
    /\ FirstRevealed
    /\ (PathScenarioDone /\ scen \in {3, 4}) =>
          ThirdTurn.path[1][1] = ThirdTurn.cell
    /\ (PathScenarioDone /\ scen = 2) =>
          /\ ThirdTurn.path[1][1] = <<2, 2>>
          /\ ThirdTurn.cell = <<4, 3>>
          /\ ThirdTurn.cell \notin Range(ThirdTurn.path[1])
    /\ (PathScenarioDone /\ scen = 5) =>
          /\ ThirdTurn.path[1][1] = <<1, 0>>
          /\ ThirdTurn.cell = <<3, 1>>
          /\ ThirdTurn.path[1][Len(ThirdTurn.path[1])] = ThirdTurn.cell

\* the second accepted turn has returned: D written at (3,2), the start of
\* its path
C15_Witness ==
    /\ AcceptedTurnDone
    /\ turnNo = 2
    /\ t_turn.path[1] = <<3, 2>>
    /\ CellOf(boards[t_board], <<3, 2>>) = "D"

-----------------------------------------------------------------------------
\* control is inside animate_turn, or at its return
InAnimateTurn ==
    pc \in {"at_copy", "at_highlight", "at_place", "at_placed", "at_reveal",
            "at_append", "at_final", "at_return"}
\* w2 is w1 with entries appended at the end
IsPrefixOf(w1, w2) == Len(w1) <= Len(w2) /\ SubSeq(w2, 1, Len(w1)) = w1

\* C16: animate_turn never modifies the list object passed to it; on accept
\* it returns another list object, equal to the input with exactly one entry,
\* the turn's word in the valid colour, appended at the end; on reject it
\* returns a list with the entries of the input; and the last frame of an
\* accepted turn shows the extended list with no highlight, path or
\* new-letter overlay.
C16_WordListAppendOnly ==
    /\ InAnimateTurn =>
          /\ wls[word_list] = call_wl
          /\ IsPrefixOf(call_wl, wls[t_word_list])
    /\ (pc = "at_return" /\ ~t_is_error) =>
          /\ t_word_list # word_list
          /\ wls[t_word_list] = call_wl \o << <<t_turn.word, VALID_COLOR>> >>
          /\ t_frames[Len(t_frames)].word_list = wls[t_word_list]
          /\ NoOverlay(t_frames[Len(t_frames)])
          /\ t_frames[Len(t_frames)].current_word = <<>>
    /\ (pc = "at_return" /\ t_is_error) => wls[t_word_list] = call_wl
    /\ (pc = "tvt_return") => WordsOf(wls[word_list]) = <<RAGE, DENT>>

\* an accepted turn has returned a list that extends a non-empty input
C16_Witness ==
    /\ pc = "at_return"
    /\ ~t_is_error
    /\ call_wl # <<>>
    /\ Len(wls[t_word_list]) = Len(call_wl) + 1
    /\ wls[word_list] = call_wl

-----------------------------------------------------------------------------
\* a scenario is running (between its call and its return to the caller)
InScenario == scen \in 1 .. 6 /\ pc \notin {"main", "done"}
\* every board and word list the running scenario refers to was created
\* after the scenario was called
OwnObjects ==
    InScenario =>
        /\ \A b \in {board, board_inv} : b # 0 => b > base_b /\ b <= Len(boards)
        /\ \A w \in {word_list, err_word_list} : w # 0 => w > base_w /\ w <= Len(wls)
        /\ InAnimateTurn => (t_board > base_b /\ t_word_list > base_w)
\* the scenario starts from the initial board, an empty word list and empty
\* frame and duration lists
FreshStart ==
    /\ (pc = "tvt_call" /\ turnNo = 1) =>
          /\ boards[board] = initial_board
          /\ wls[word_list] = <<>>
          /\ frames = <<>>
          /\ durations = <<>>
    /\ (pc = "g6_correct") => (frames = <<>> /\ durations = <<>>)
\* what a scenario hands to save_gif is what its first run handed over
SameAsFirstRun ==
    (pc = "save" /\ saved[scen] # <<>>) =>
        saved[scen][1] = [frames |-> frames, durations |-> durations]
\* what two_valid_turns returned is what its first run returned, whichever
\* scenario called it
SamePrefix ==
    (scen \in 1 .. 5 /\ prefix_n > 0 /\ pc # "main") =>
        /\ saved_prefix # <<>>
        /\ saved_prefix[1] =
              [frames |-> SubSeq(frames, 1, prefix_n),
               durations |-> SubSeq(durations, 1, prefix_n),
               board |-> prefix_board,
               word_list |-> prefix_wl]
        /\ prefix_n = 26
        /\ prefix_board = BoardAfter(BoardAfter(initial_board, TURN1), TURN2)
        /\ WordsOf(prefix_wl) = <<RAGE, DENT>>
        /\ boards[board] = prefix_board
        /\ wls[word_list] = prefix_wl

\* C17: when the scenarios are called in any order, with repetition, no board
\* or word list is shared between calls (every object a scenario refers to
\* was created after its call), each scenario starts from the initial board
\* with empty word, frame and duration lists, each scenario hands save_gif
\* the frames and durations of its first run whatever ran before it, and
\* scenarios 1 to 5 all get the same accepted-prefix frames, durations, board
\* and word list from two_valid_turns.
C17_ScenariosIndependent ==
    /\ OwnObjects
    /\ FreshStart
    /\ SameAsFirstRun
    /\ SamePrefix

\* scenario 5 reaches save_gif in its second call, after another scenario
\* ran first or after an earlier run of itself
C17_Witness ==
    /\ pc = "save"
    /\ calls = 2
    /\ scen = 5
    /\ base_b > 0
    /\ saved_prefix # <<>>
    /\ \E s \in 1 .. 6 : saved[s] # <<>>

-----------------------------------------------------------------------------
\* the error frame of the scenario that has reached save_gif
ScenarioErrFrame ==
    CASE scen = 1 -> gif1_err_frame
      [] scen = 2 -> gif2_err_frame
      [] scen = 3 -> gif3_err_frame
      [] scen = 4 -> gif4_err_frame
      [] scen = 5 -> gif5_err_frame
      [] scen = 6 -> gif6_img3
\* durations of one accepted turn, and of what each scenario adds before its
\* held error frame, in construction order
TurnDurations == <<500, 500, 350, 350, 350, 350, 150, 150, 150, 150, 150, 150, 600>>
LeadDurations ==
    CASE scen = 1 -> TurnDurations \o TurnDurations \o <<600>>
      [] scen = 2 -> TurnDurations \o TurnDurations \o <<600, 300, 300, 300>>
      [] scen = 3 -> TurnDurations \o TurnDurations \o <<600, 400>>
      [] scen = 4 -> TurnDurations \o TurnDurations \o <<600, 400, 400, 400>>
      [] scen = 5 -> TurnDurations \o TurnDurations \o <<600, 350, 350, 350, 350>>
      [] scen = 6 -> <<3000, 3000>>

====
